---- MODULE Spec2Model ----
(***************************************************************************)
(* A model of the mean-reversion trading repository:                       *)
(*   - MeanReversionStrategy (src/trading_strategy.py): fit,               *)
(*     generate_signal and the backtest state machine;                     *)
(*   - OUProcess (src/ou_process.py): the seeded path simulators and the   *)
(*     stationary_variance / half_life analytics.                          *)
(*                                                                         *)
(* Numbers.  Prices, cash, mu, theta, sigma and threshold_sigma are        *)
(* integers; every quotient the code forms (z-score, loss_pct, drawdown,   *)
(* step return) is kept as an exact fraction and compared by               *)
(* cross-multiplication, so that a strict comparison in the code is a      *)
(* strict comparison here.  The square root in the z-score is removed by   *)
(* comparing squares.  numpy's non-finite results (nan, inf) are kept as   *)
(* tagged kinds and compared the way IEEE-754 compares them.               *)
(***************************************************************************)
EXTENDS Integers, Sequences, FiniteSets

VARIABLES
    \* ---- MeanReversionStrategy object (trading_strategy.py:14-21)
    threshold_sigma,   \* self.threshold_sigma
    fitted,            \* FALSE while self.theta/self.mu/self.sigma are None
    theta, mu, sigma,  \* self.theta, self.mu, self.sigma (0 while None)
    \* ---- backtest call: arguments and locals (trading_strategy.py:100-224)
    pc,                \* "idle" | "loop" | "done"
    data, initial_capital, stop_loss_pct, exit_at_mean, allow_short,
    i,                 \* number of bars processed so far
    cash, position, entry_price, position_type, trades,
    portfolio_values, positions, signals,
    result,            \* the returned dict (performance metrics)
    \* ---- generate_signal called directly
    sig_in, sig_out,
    \* ---- OUProcess object, numpy's global generator, last return value
    ou, rng, ou_ret

stratVars == <<threshold_sigma, fitted, theta, mu, sigma>>
btVars == <<pc, data, initial_capital, stop_loss_pct, exit_at_mean, allow_short,
            i, cash, position, entry_price, position_type, trades,
            portfolio_values, positions, signals, result>>
sigVars == <<sig_in, sig_out>>
ouVars == <<ou, rng, ou_ret>>
vars == <<stratVars, btVars, sigVars, ouVars>>

---------------------------------------------------------------------------
(* Bounds and input domains *)

MaxLen == 4

Prices == {1, 2, 3, 13}

Series == UNION {[1..n -> Prices] : n \in 2..MaxLen}

ThresholdVals == {1, 2}

\* thresholds tried on generate_signal alone
SignalThresholdVals == {-1, 0, 1, 2}

\* stop_loss_pct as a fraction <<numerator, denominator>>; 1/5 is the default 0.20
StopLossVals == {<<1, 5>>, <<1, 2>>}

\* Arguments the code accepts without any check: a zero or negative
\* threshold_sigma, and a zero or negative stop_loss_pct
EdgeThresholdVals == {-1, 0}

EdgeStopLossVals == {<<1, 5>>, <<0, 1>>, <<-1, 5>>}

Capitals == {10}

\* What the estimator hands to fit: theta > 0 is a valid mean-reverting fit,
\* theta <= 0 the invalid one.  sigma^2/(2*theta) is 1/2 for (1,1) and 1 for (2,2).
FitOutputs ==
    {[theta |-> t[1], mu |-> m, sigma |-> t[2]] :
        t \in {<<1, 1>>, <<2, 2>>}, m \in {2, 3}}
    \cup {[theta |-> t, mu |-> 2, sigma |-> 1] : t \in {-1, 0}}

---------------------------------------------------------------------------
(* generate_signal *)

\* Kind of np.sqrt((sigma ** 2) / (2 * theta)) on numpy scalars:
\* "pos" a positive finite number, "zero" +0.0, "negzero" -0.0,
\* "inf" (x/0 with x > 0), "nan" (0/0, or the root of a negative number).
StdKind(th, sg) ==
    CASE th > 0 /\ sg # 0 -> "pos"
      [] th > 0 /\ sg = 0 -> "zero"
      [] th = 0 /\ sg # 0 -> "inf"
      [] th = 0 /\ sg = 0 -> "nan"
      [] th < 0 /\ sg # 0 -> "nan"
      [] OTHER            -> "negzero"

\* z_score > t, where z_score = deviation / stationary_std.
\* For a positive finite std, with A = dev^2 * 2*theta and B = t^2 * sigma^2:
\*   t >= 0:  z > t  <=>  dev > 0 /\ A > B;   t < 0:  z > t  <=>  dev >= 0 \/ A < B.
\* (ZGreaterOrEqual is the comparison with >= in place of >.)
ZGreaterOrEqual(dev, t, th, sg) ==
    LET k == StdKind(th, sg)
        A == dev * dev * 2 * th
        B == t * t * sg * sg
    IN  CASE k = "pos"     -> IF t >= 0 THEN dev > 0 /\ A >= B ELSE dev >= 0 \/ A <= B
          [] k = "zero"    -> dev > 0
          [] k = "negzero" -> dev < 0
          [] k = "inf"     -> 0 > t
          [] OTHER         -> FALSE

ZGreater(dev, t, th, sg) ==
    LET k == StdKind(th, sg)
        A == dev * dev * 2 * th
        B == t * t * sg * sg
    IN  CASE k = "pos"     -> IF t >= 0 THEN dev > 0 /\ A > B ELSE dev >= 0 \/ A < B
          [] k = "zero"    -> dev > 0      \* dev/0.0 = +inf
          [] k = "negzero" -> dev < 0      \* dev/-0.0 = +inf for dev < 0
          [] k = "inf"     -> 0 > t        \* dev/inf = 0
          [] OTHER         -> FALSE        \* nan compares false

\* z_score < -t  <=>  -z_score > t
ZLess(dev, t, th, sg) == ZGreater(-dev, t, th, sg)

\* generate_signal(current_value) on a strategy with the given fields:
\* the pair (signal, signal_type).
GenerateSignal(x, isFitted, th, m, sg, thr) ==
    IF ~isFitted THEN <<0, "NO_SIGNAL">>
    ELSE IF ZGreater(x - m, thr, th, sg) THEN <<-1, "SELL">>
    ELSE IF ZLess(x - m, thr, th, sg) THEN <<1, "BUY">>
    ELSE <<0, "HOLD">>

---------------------------------------------------------------------------
(* backtest: one loop iteration *)

\* int(a / b) for b > 0: Python's int() truncates toward zero
IntDiv(a, b) == IF a >= 0 THEN a \div b ELSE -((-a) \div b)

\* The locals the loop body reads and writes
Locals == [cash |-> cash, position |-> position, entry_price |-> entry_price,
           position_type |-> position_type, trades |-> trades]

Closed(st, newCash) ==
    [st EXCEPT !.cash = newCash, !.position = 0, !.position_type = "None",
               !.entry_price = 0, !.trades = st.trades + 1]

\* Enter without the position == 0 guard on the short entry
EnterWhileOpen(st, sgn, price, shortOk) ==
    LET shares == IntDiv(st.cash, price)
    IN  IF sgn = 1 /\ st.position = 0
        THEN IF shares > 0
             THEN [st EXCEPT !.position = shares, !.position_type = "long",
                             !.entry_price = price,
                             !.cash = st.cash - shares * price,
                             !.trades = st.trades + 1]
             ELSE st
        ELSE IF sgn = -1 /\ shortOk
        THEN IF shares > 0
             THEN [st EXCEPT !.position = shares, !.position_type = "short",
                             !.entry_price = price,
                             !.cash = st.cash + shares * price,
                             !.trades = st.trades + 1]
             ELSE st
        ELSE st

\* Enter with the allow_short test left out of the short entry
EnterShortUnchecked(st, sgn, price, shortOk) ==
    LET shares == IntDiv(st.cash, price)
    IN  IF sgn = 1 /\ st.position = 0
        THEN IF shares > 0
             THEN [st EXCEPT !.position = shares, !.position_type = "long",
                             !.entry_price = price,
                             !.cash = st.cash - shares * price,
                             !.trades = st.trades + 1]
             ELSE st
        ELSE IF sgn = -1 /\ st.position = 0
        THEN IF shares > 0
             THEN [st EXCEPT !.position = shares, !.position_type = "short",
                             !.entry_price = price,
                             !.cash = st.cash + shares * price,
                             !.trades = st.trades + 1]
             ELSE st
        ELSE st

\* Lines 123-141: entries
Enter(st, sgn, price, shortOk) ==
    LET shares == IntDiv(st.cash, price)
    IN  IF sgn = 1 /\ st.position = 0
        THEN IF shares > 0
             THEN [st EXCEPT !.position = shares, !.position_type = "long",
                             !.entry_price = price,
                             !.cash = st.cash - shares * price,
                             !.trades = st.trades + 1]
             ELSE st
        ELSE IF sgn = -1 /\ st.position = 0 /\ shortOk
        THEN IF shares > 0
             THEN [st EXCEPT !.position = shares, !.position_type = "short",
                             !.entry_price = price,
                             !.cash = st.cash + shares * price,
                             !.trades = st.trades + 1]
             ELSE st
        ELSE st

\* Exit with the short stop-loss computed like the long one (entry - price)
ExitShortStopAsLong(st, sgn, price, prevDev, dev, stop, atMean) ==
    IF st.position > 0 /\ st.position_type = "long"
    THEN IF (st.entry_price - price) * stop[2] > stop[1] * st.entry_price
         THEN Closed(st, st.cash + st.position * price)
         ELSE IF atMean /\ prevDev < 0 /\ dev >= 0
         THEN Closed(st, st.cash + st.position * price)
         ELSE IF sgn = -1
         THEN Closed(st, st.cash + st.position * price)
         ELSE st
    ELSE IF st.position > 0 /\ st.position_type = "short"
    THEN IF (st.entry_price - price) * stop[2] > stop[1] * st.entry_price
         THEN Closed(st, st.cash + st.position * (2 * st.entry_price - price))
         ELSE IF atMean /\ prevDev > 0 /\ dev <= 0
         THEN Closed(st, st.cash + st.position * (2 * st.entry_price - price))
         ELSE IF sgn = 1
         THEN Closed(st, st.cash + st.position * (2 * st.entry_price - price))
         ELSE st
    ELSE st

\* Exit with the long mean-crossing test on the wrong side (deviation <= 0)
ExitMeanWrongSide(st, sgn, price, prevDev, dev, stop, atMean) ==
    IF st.position > 0 /\ st.position_type = "long"
    THEN IF (st.entry_price - price) * stop[2] > stop[1] * st.entry_price
         THEN Closed(st, st.cash + st.position * price)
         ELSE IF atMean /\ prevDev < 0 /\ dev <= 0
         THEN Closed(st, st.cash + st.position * price)
         ELSE IF sgn = -1
         THEN Closed(st, st.cash + st.position * price)
         ELSE st
    ELSE IF st.position > 0 /\ st.position_type = "short"
    THEN IF (price - st.entry_price) * stop[2] > stop[1] * st.entry_price
         THEN Closed(st, st.cash + st.position * (2 * st.entry_price - price))
         ELSE IF atMean /\ prevDev > 0 /\ dev <= 0
         THEN Closed(st, st.cash + st.position * (2 * st.entry_price - price))
         ELSE IF sgn = 1
         THEN Closed(st, st.cash + st.position * (2 * st.entry_price - price))
         ELSE st
    ELSE st

\* Exit with the stop-loss tests as loss_pct >= stop_loss_pct
ExitStopAtLimit(st, sgn, price, prevDev, dev, stop, atMean) ==
    IF st.position > 0 /\ st.position_type = "long"
    THEN IF (st.entry_price - price) * stop[2] >= stop[1] * st.entry_price
         THEN Closed(st, st.cash + st.position * price)
         ELSE IF atMean /\ prevDev < 0 /\ dev >= 0
         THEN Closed(st, st.cash + st.position * price)
         ELSE IF sgn = -1
         THEN Closed(st, st.cash + st.position * price)
         ELSE st
    ELSE IF st.position > 0 /\ st.position_type = "short"
    THEN IF (price - st.entry_price) * stop[2] >= stop[1] * st.entry_price
         THEN Closed(st, st.cash + st.position * (2 * st.entry_price - price))
         ELSE IF atMean /\ prevDev > 0 /\ dev <= 0
         THEN Closed(st, st.cash + st.position * (2 * st.entry_price - price))
         ELSE IF sgn = 1
         THEN Closed(st, st.cash + st.position * (2 * st.entry_price - price))
         ELSE st
    ELSE st

\* Lines 143-191: exits.  loss_pct > stop_loss_pct is compared as fractions
\* (entry_price > 0 while a position is open).
Exit(st, sgn, price, prevDev, dev, stop, atMean) ==
    IF st.position > 0 /\ st.position_type = "long"
    THEN IF (st.entry_price - price) * stop[2] > stop[1] * st.entry_price
         THEN Closed(st, st.cash + st.position * price)
         ELSE IF atMean /\ prevDev < 0 /\ dev >= 0
         THEN Closed(st, st.cash + st.position * price)
         ELSE IF sgn = -1
         THEN Closed(st, st.cash + st.position * price)
         ELSE st
    ELSE IF st.position > 0 /\ st.position_type = "short"
    THEN IF (price - st.entry_price) * stop[2] > stop[1] * st.entry_price
         THEN Closed(st, st.cash + st.position * (2 * st.entry_price - price))
         ELSE IF atMean /\ prevDev > 0 /\ dev <= 0
         THEN Closed(st, st.cash + st.position * (2 * st.entry_price - price))
         ELSE IF sgn = 1
         THEN Closed(st, st.cash + st.position * (2 * st.entry_price - price))
         ELSE st
    ELSE st

\* PortfolioValue with a long marked at its profit instead of its value
PortfolioValueAsPnl(st, price) ==
    IF st.position > 0
    THEN IF st.position_type = "long"
         THEN st.cash + st.position * (price - st.entry_price)
         ELSE st.cash + st.position * (2 * st.entry_price - price)
    ELSE st.cash

\* Lines 193-200: mark-to-market value of the step
PortfolioValue(st, price) ==
    IF st.position > 0
    THEN IF st.position_type = "long"
         THEN st.cash + st.position * price
         ELSE st.cash + st.position * (2 * st.entry_price - price)
    ELSE st.cash

---------------------------------------------------------------------------
(* backtest: performance metrics *)

\* _calculate_max_drawdown: the running maximum of (peak - value) / peak, as the
\* fraction <<num, den>> with den > 0 (peak >= portfolio_values[0] > 0).
\* dd > max_dd  <=>  (peak - value) * den > num * peak.
RECURSIVE MaxDrawdownFrom(_, _, _, _, _)
MaxDrawdownFrom(pv, k, peak, num, den) ==
    IF k > Len(pv) THEN <<num, den>>
    ELSE LET value == pv[k]
             pk == IF value > peak THEN value ELSE peak
         IN  IF (pk - value) * den > num * pk
             THEN MaxDrawdownFrom(pv, k + 1, pk, pk - value, pk)
             ELSE MaxDrawdownFrom(pv, k + 1, pk, num, den)

CalculateMaxDrawdown(pv) == MaxDrawdownFrom(pv, 1, pv[1], 0, 1)

\* np.std(returns) > 0 with returns = np.diff(pv) / pv[:-1]: a zero divisor
\* gives inf or nan, whose std is nan (not > 0); otherwise the std is positive
\* exactly when two step returns differ.
StdPositive(pv) ==
    LET n == Len(pv) - 1
    IN  /\ \A k \in 1..n : pv[k] # 0
        /\ \E j, k \in 1..n :
              (pv[j + 1] - pv[j]) * pv[k] # (pv[k + 1] - pv[k]) * pv[j]

\* 'sharpe_ratio': the sentinel 0 when the std is not positive; otherwise
\* mean/std*sqrt(252), whose value is not computed here ("ratio").
\* (SharpeNoGuard is the ratio without the std > 0 guard: 0/0 is nan.)
SharpeNoGuard(pv) == IF StdPositive(pv) THEN "ratio" ELSE "nan"

SharpeRatio(pv) == IF StdPositive(pv) THEN "ratio" ELSE "0"

\* Lines 205-211: cash after the forced exit at data[-1]
FinalCash(st, lastPrice) ==
    IF st.position > 0
    THEN IF st.position_type = "long"
         THEN st.cash + st.position * lastPrice
         ELSE st.cash + st.position * (2 * st.entry_price - lastPrice)
    ELSE st.cash

\* Lines 213-224: the returned metrics (fractions as <<num, den>>)
Metrics(pv, capital, nTrades) ==
    [total_return |-> <<pv[Len(pv)] - capital, capital>>,
     sharpe_ratio |-> SharpeRatio(pv),
     max_drawdown |-> CalculateMaxDrawdown(pv),
     num_trades   |-> nTrades]

NoResult == [total_return |-> <<0, 1>>, sharpe_ratio |-> "0",
             max_drawdown |-> <<0, 1>>, num_trades |-> 0]

---------------------------------------------------------------------------
(* The estimator (ou_estimator.py is not part of the sources at hand).      *)
(* Maximum-likelihood fit of x[t+1] = a + b*x[t] + eps as the specification *)
(* describes it: b = Cxy/Cxx, mu = a/(1-b), theta = -ln(b)/dt and           *)
(* sigma^2 = resvar * 2*theta / (1 - b^2), so that the stationary variance  *)
(* sigma^2/(2*theta) = resvar/(1 - b^2) is rational.  The strategy reads    *)
(* theta and sigma only through that quotient; the fit is returned as an    *)
(* integer pair (theta, sigma) with the same quotient and the sign of       *)
(* theta.                                                                   *)

RECURSIVE SumTo(_, _, _)
SumTo(f, lo, hi) == IF lo > hi THEN 0 ELSE f[lo] + SumTo(f, lo + 1, hi)

RECURSIVE Gcd(_, _)
Gcd(a, b) == IF b = 0 THEN a ELSE Gcd(b, a % b)

EstimateMLE(d) ==
    LET n   == Len(d) - 1
        Sx  == SumTo([k \in 1..n |-> d[k]], 1, n)
        Sy  == SumTo([k \in 1..n |-> d[k + 1]], 1, n)
        Sxx == SumTo([k \in 1..n |-> d[k] * d[k]], 1, n)
        Sxy == SumTo([k \in 1..n |-> d[k] * d[k + 1]], 1, n)
        Syy == SumTo([k \in 1..n |-> d[k + 1] * d[k + 1]], 1, n)
        Cxx == n * Sxx - Sx * Sx
        Cxy == n * Sxy - Sx * Sy
        Cyy == n * Syy - Sy * Sy
        \* stationary variance = (D/E) * (Cxx / n^2), reduced
        D   == Cyy * Cxx - Cxy * Cxy
        E   == Cxx * Cxx - Cxy * Cxy
        g1  == Gcd(D, E)
        vn0 == (D \div g1) * Cxx
        vd0 == (E \div g1) * n * n
        g2  == Gcd(vn0, vd0)
        vn  == vn0 \div g2
        vd  == vd0 \div g2
    IN  [theta |-> 2 * vn * vd * vd * vd,
         mu    |-> (Sy * Cxx - Cxy * Sx) \div (n * (Cxx - Cxy)),
         sigma |-> 2 * vn * vd]

---------------------------------------------------------------------------
(* backtest: the call, the loop, the return *)

ScenarioSeries == <<100, 95, 90, 95, 100, 105, 110, 105, 100>>

ScenarioInput ==
    [data |-> ScenarioSeries, fit |-> EstimateMLE(ScenarioSeries),
     capital |-> 10000, stop |-> <<1, 2>>, at_mean |-> TRUE, short |-> TRUE]

GeneralInputs ==
    [data : Series, fit : FitOutputs, capital : Capitals,
     stop : StopLossVals, at_mean : BOOLEAN, short : BOOLEAN]

\* backtest(data, dt, initial_capital, stop_loss_pct, exit_at_mean, allow_short)
\* up to the loop: fit (lines 23-39) stores the estimator's output, then the
\* locals are initialised (lines 103-112).
Start(inp) ==
    /\ fitted' = TRUE
    /\ theta' = inp.fit.theta
    /\ mu' = inp.fit.mu
    /\ sigma' = inp.fit.sigma
    /\ data' = inp.data
    /\ initial_capital' = inp.capital
    /\ stop_loss_pct' = inp.stop
    /\ exit_at_mean' = inp.at_mean
    /\ allow_short' = inp.short
    /\ i' = 0
    /\ cash' = inp.capital
    /\ position' = 0
    /\ entry_price' = 0
    /\ position_type' = "None"
    /\ trades' = 0
    /\ portfolio_values' = <<inp.capital>>
    /\ positions' = <<>>
    /\ signals' = <<>>
    /\ result' = NoResult
    /\ pc' = "loop"
    /\ UNCHANGED <<threshold_sigma, sigVars, ouVars>>

\* backtest called with a zero or negative stop_loss_pct, or on a strategy
\* whose threshold_sigma is zero or negative
EdgeInputs ==
    [data : Series, fit : {[theta |-> 1, mu |-> 2, sigma |-> 1]},
     capital : Capitals, stop : EdgeStopLossVals,
     at_mean : BOOLEAN, short : BOOLEAN]

BacktestCall ==
    /\ pc = "idle"
    /\ \/ threshold_sigma \in ThresholdVals /\ \E inp \in GeneralInputs : Start(inp)
       \/ \E inp \in EdgeInputs : Start(inp)
       \/ threshold_sigma = 1 /\ Start(ScenarioInput)

\* One iteration of the loop at lines 114-203
Bar ==
    /\ pc = "loop"
    /\ i < Len(data)
    /\ LET current_price == data[i + 1]
           sig == GenerateSignal(current_price, fitted, theta, mu, sigma,
                                 threshold_sigma)
           deviation == current_price - mu
           prev_price == IF i > 0 THEN data[i] ELSE current_price
           prev_deviation == prev_price - mu
           st1 == Enter(Locals, sig[1], current_price, allow_short)
           st2 == Exit(st1, sig[1], current_price, prev_deviation, deviation,
                       stop_loss_pct, exit_at_mean)
       IN  /\ signals' = Append(signals, sig[2])
           /\ cash' = st2.cash
           /\ position' = st2.position
           /\ entry_price' = st2.entry_price
           /\ position_type' = st2.position_type
           /\ trades' = st2.trades
           /\ portfolio_values' =
                  Append(portfolio_values, PortfolioValue(st2, current_price))
           /\ positions' = Append(positions, st2.position)
    /\ i' = i + 1
    /\ UNCHANGED <<stratVars, pc, data, initial_capital, stop_loss_pct,
                   exit_at_mean, allow_short, result, sigVars, ouVars>>

\* Lines 205-224: forced exit of a remaining position, then the metrics
Finish ==
    /\ pc = "loop"
    /\ i = Len(data)
    /\ LET newCash == FinalCash(Locals, data[Len(data)])
           pv == IF position > 0
                 THEN [portfolio_values EXCEPT ![Len(portfolio_values)] = newCash]
                 ELSE portfolio_values
       IN  /\ cash' = newCash
           /\ portfolio_values' = pv
           /\ result' = Metrics(pv, initial_capital, trades)
    /\ pc' = "done"
    /\ UNCHANGED <<stratVars, data, initial_capital, stop_loss_pct, exit_at_mean,
                   allow_short, i, position, entry_price, position_type, trades,
                   positions, signals, sigVars, ouVars>>

---------------------------------------------------------------------------
(* fit and generate_signal called directly on the strategy object *)

MaxValue == 6

SignalInputs == 0..MaxValue

\* fit(data, dt) with the estimator's output f (lines 23-39)
FitCall ==
    /\ pc = "idle"
    /\ \E f \in FitOutputs :
          /\ fitted' = TRUE
          /\ theta' = f.theta
          /\ mu' = f.mu
          /\ sigma' = f.sigma
    \* the record of the last generate_signal call belongs to the old fit
    /\ sig_in' = 0
    /\ sig_out' = <<0, "none">>
    /\ UNCHANGED <<threshold_sigma, btVars, ouVars>>

\* generate_signal(current_value) (lines 41-54)
GenerateSignalCall ==
    /\ pc = "idle"
    /\ \E x \in SignalInputs :
          /\ sig_in' = x
          /\ sig_out' = GenerateSignal(x, fitted, theta, mu, sigma, threshold_sigma)
    /\ UNCHANGED <<stratVars, btVars, ouVars>>

---------------------------------------------------------------------------
(* OUProcess *)

\* numpy's process-wide generator, abstracted to a counter state:
\* np.random.seed(s) sets it from s alone, each np.random.normal reads a
\* value off the state and advances it.
RngMod == 7

RngStates == 0..(RngMod - 1)

SeedState(s) == s % RngMod

NextRng(g) == (3 * g + 1) % RngMod

\* the standard normal draw, abstracted to -1, 0 or 1
Draw(g) == (g % 3) - 1

MaxSteps == 3

Seeds == {1, 2}

\* an optional argument: <<>> is None, <<v>> the value v
Optional(S) == {<<>>} \cup {<<v>> : v \in S}

OUParams == [theta : {-1, 0, 1, 2}, mu : {2}, sigma : {1}, dt : {1}, x0 : {<<>>}]

NoReturn == [op |-> "none", kind |-> "None", val |-> <<>>, seeded |-> FALSE]

\* Lines 23-24 / 43-44: if seed is not None: np.random.seed(seed)
Reseed(g, seedOpt) == IF seedOpt = <<>> THEN g ELSE SeedState(seedOpt[1])

\* Lines 35-38 with dt = 1 (sqrt_dt = 1): the Euler-Maruyama steps.
\* Returns the path and the generator state after the draws.
RECURSIVE EulerSteps(_, _, _, _)
EulerSteps(o, path, g, n) ==
    IF Len(path) >= n THEN [path |-> path, rng |-> g]
    ELSE LET prev == path[Len(path)]
             drift == o.theta * (o.mu - prev) * o.dt
             diffusion == o.sigma * Draw(g)
         IN  EulerSteps(o, Append(path, prev + drift + diffusion), NextRng(g), n)

\* Lines 57-59: the exact-transition steps.  exp(-theta*dt) is irrational, so
\* each path entry after the first is kept as the standard draw that drives
\* it; one draw is consumed per step, as in the code.
RECURSIVE ExactSteps(_, _, _, _)
ExactSteps(o, path, g, n) ==
    IF Len(path) >= n THEN [path |-> path, rng |-> g]
    ELSE ExactSteps(o, Append(path, Draw(g)), NextRng(g), n)

\* simulate(n_steps, x0, seed) (lines 22-40)
Simulate ==
    /\ pc = "idle"
    /\ \E n \in 1..MaxSteps, x0Opt \in Optional({1, 3}), seedOpt \in Optional(Seeds) :
          LET x0 == IF x0Opt = <<>> THEN ou.mu ELSE x0Opt[1]
              r == EulerSteps(ou, <<x0>>, Reseed(rng, seedOpt), n)
          IN  /\ ou' = [ou EXCEPT !.x0 = <<x0>>]
              /\ rng' = r.rng
              /\ ou_ret' = [op |-> "simulate", kind |-> "path", val |-> r.path,
                            seeded |-> seedOpt # <<>>]
    /\ UNCHANGED <<stratVars, btVars, sigVars>>

\* simulate_exact(n_steps, x0, seed) (lines 42-61)
SimulateExact ==
    /\ pc = "idle"
    /\ \E n \in 1..MaxSteps, x0Opt \in Optional({1, 3}), seedOpt \in Optional(Seeds) :
          LET x0 == IF x0Opt = <<>> THEN ou.mu ELSE x0Opt[1]
              r == ExactSteps(ou, <<x0>>, Reseed(rng, seedOpt), n)
          IN  /\ ou' = [ou EXCEPT !.x0 = <<x0>>]
              /\ rng' = r.rng
              /\ ou_ret' = [op |-> "simulate_exact", kind |-> "path", val |-> r.path,
                            seeded |-> seedOpt # <<>>]
    /\ UNCHANGED <<stratVars, btVars, sigVars>>

\* stationary_variance() (lines 94-97): None for theta <= 0, else the
\* fraction sigma^2 / (2*theta) as <<num, den>>
StationaryVarianceOf(o) ==
    IF o.theta <= 0
    THEN [op |-> "stationary_variance", kind |-> "None", val |-> <<>>, seeded |-> FALSE]
    ELSE [op |-> "stationary_variance", kind |-> "num",
          val |-> <<o.sigma * o.sigma, 2 * o.theta>>, seeded |-> FALSE]

\* half_life() (lines 99-100): np.log(2) / theta with no guard.  The value is
\* ln(2) * val[1]/val[2]; a numpy float divided by zero is inf.
HalfLifeOf(o) ==
    IF o.theta = 0
    THEN [op |-> "half_life", kind |-> "inf", val |-> <<>>, seeded |-> FALSE]
    ELSE [op |-> "half_life", kind |-> "num", val |-> <<1, o.theta>>, seeded |-> FALSE]

StationaryVariance ==
    /\ pc = "idle"
    /\ ou_ret' = StationaryVarianceOf(ou)
    /\ UNCHANGED <<stratVars, btVars, sigVars, ou, rng>>

HalfLife ==
    /\ pc = "idle"
    /\ ou_ret' = HalfLifeOf(ou)
    /\ UNCHANGED <<stratVars, btVars, sigVars, ou, rng>>

---------------------------------------------------------------------------
(* Specifications *)

\* MeanReversionStrategy(threshold_sigma=...) constructed, nothing called yet
InitStrategy ==
    /\ threshold_sigma \in ThresholdVals \cup EdgeThresholdVals
    /\ fitted = FALSE
    /\ theta = 0
    /\ mu = 0
    /\ sigma = 0

InitBacktest ==
    /\ pc = "idle"
    /\ data = <<>>
    /\ initial_capital = 0
    /\ stop_loss_pct = <<0, 1>>
    /\ exit_at_mean = TRUE
    /\ allow_short = TRUE
    /\ i = 0
    /\ cash = 0
    /\ position = 0
    /\ entry_price = 0
    /\ position_type = "None"
    /\ trades = 0
    /\ portfolio_values = <<>>
    /\ positions = <<>>
    /\ signals = <<>>
    /\ result = NoResult

InitSignal ==
    /\ sig_in = 0
    /\ sig_out = <<0, "none">>

InitProcess ==
    /\ ou \in OUParams
    /\ rng \in RngStates
    /\ ou_ret = NoReturn

IdleProcess ==
    /\ ou = [theta |-> 1, mu |-> 2, sigma |-> 1, dt |-> 1, x0 |-> <<>>]
    /\ rng = 0
    /\ ou_ret = NoReturn

\* The strategy object driven through backtest
Init == InitStrategy /\ InitBacktest /\ InitSignal /\ IdleProcess

Next == BacktestCall \/ Bar \/ Finish

Spec == Init /\ [][Next]_vars

\* The strategy object driven through fit and generate_signal
InitSignalSpec ==
    /\ threshold_sigma \in SignalThresholdVals
    /\ fitted = FALSE
    /\ theta = 0
    /\ mu = 0
    /\ sigma = 0
    /\ InitBacktest /\ InitSignal /\ IdleProcess

NextSignal == FitCall \/ GenerateSignalCall

SpecSignal == InitSignalSpec /\ [][NextSignal]_vars

\* The OUProcess object and numpy's global generator
InitOU == InitStrategy /\ InitBacktest /\ InitSignal /\ InitProcess /\ threshold_sigma = 2

NextOU == Simulate \/ SimulateExact \/ StationaryVariance \/ HalfLife

SpecProcess == InitOU /\ [][NextOU]_vars

---------------------------------------------------------------------------
(* Claims *)

Last(q) == q[Len(q)]

\* bars at which a position was opened and is still open after the bar
EntryBars == {k \in 1..Len(positions) :
                 positions[k] > 0 /\ (k = 1 \/ positions[k - 1] = 0)}

\* C1: after every bar at most one position is open: position_type is None
\* exactly when position = 0 (and then entry_price = 0), it is long or short
\* exactly when position > 0; and a bar that ends with a position it traded
\* into started FLAT (a new position is opened only from FLAT).
C1_PositionShape ==
    /\ position >= 0
    /\ position_type \in {"None", "long", "short"}
    /\ (position_type = "None") <=> (position = 0)
    /\ (position = 0) => (entry_price = 0)
    /\ (position_type \in {"long", "short"}) <=> (position > 0)

C1_OnePositionOpenedFromFlat ==
    /\ []C1_PositionShape
    /\ [][(pc = "loop" /\ position_type' # "None" /\ trades' # trades)
            => (position_type = "None" /\ position = 0)]_vars

\* C1 witness: a second position (a short) is open after an earlier one was closed
C1_Witness == pc = "loop" /\ position_type = "short" /\ trades >= 3

\* C2: when backtest finishes with a position still open after the last bar,
\* the forced liquidation leaves the position state FLAT with zero shares.
C2_FlatAfterLiquidation ==
    (pc = "done" /\ Last(positions) > 0)
        => (position = 0 /\ position_type = "None")

C4_ShortIsMarkToMarket ==
    [][(pc = "loop" /\ pc' = "loop") =>
          LET p == data[i + 1]
              s == position
              e == entry_price
              c == cash - s * e
          IN  /\ (position_type = "None" /\ position_type' = "short")
                    => Last(portfolio_values') = cash
              /\ (position_type = "short" /\ position_type' = "short")
                    => Last(portfolio_values') = c + s * (e - p)
              /\ (position_type = "short" /\ position_type' = "None")
                    => cash' = c + s * (e - p)]_vars

\* z-score of x strictly above t, written out for theta > 0 and sigma > 0:
\* (x - mu) / sqrt(sigma^2 / (2*theta)) > t
C5_ZAbove(x, t) ==
    IF t >= 0
    THEN x > mu /\ (x - mu) * (x - mu) * 2 * theta > t * t * sigma * sigma
    ELSE x >= mu \/ (x - mu) * (x - mu) * 2 * theta < t * t * sigma * sigma

\* z-score of x strictly below t
C5_ZBelow(x, t) ==
    IF t <= 0
    THEN x < mu /\ (x - mu) * (x - mu) * 2 * theta > t * t * sigma * sigma
    ELSE x <= mu \/ (x - mu) * (x - mu) * 2 * theta < t * t * sigma * sigma

C5_Called == fitted /\ theta > 0 /\ sigma > 0 /\ sig_out[2] # "none"

C5_Thresholds ==
    /\ C5_ZAbove(sig_in, threshold_sigma) => sig_out = <<-1, "SELL">>
    /\ C5_ZBelow(sig_in, -threshold_sigma) => sig_out = <<1, "BUY">>
    /\ (~C5_ZAbove(sig_in, threshold_sigma) /\ ~C5_ZBelow(sig_in, -threshold_sigma))
          => sig_out = <<0, "HOLD">>

\* C5 (as claimed): for a valid fit and any threshold_sigma, generate_signal
\* gives SELL for a z-score strictly above threshold_sigma, BUY for one
\* strictly below -threshold_sigma and HOLD otherwise.
C5_SignalByThreshold == C5_Called => C5_Thresholds

\* C5 (amended): the same for threshold_sigma >= 0.
C5_SignalByNonNegativeThreshold ==
    (C5_Called /\ threshold_sigma >= 0) => C5_Thresholds

\* C5 witness: a z-score exactly equal to a positive threshold gave HOLD
C5_Witness ==
    /\ C5_Called /\ threshold_sigma > 0 /\ sig_in > mu
    /\ (sig_in - mu) * (sig_in - mu) * 2 * theta
           = threshold_sigma * threshold_sigma * sigma * sigma
    /\ sig_out = <<0, "HOLD">>

\* C6: with an invalid fit (theta <= 0) generate_signal returns NO_SIGNAL for
\* every observation, never BUY or SELL.
C6_InvalidFitGivesNoSignal ==
    (fitted /\ theta <= 0 /\ sig_out[2] # "none") => sig_out = <<0, "NO_SIGNAL">>

\* the scenario run: the nine-bar series with its configuration and its fit
C7_ScenarioRun ==
    /\ pc # "idle"
    /\ data = ScenarioSeries
    /\ threshold_sigma = 1
    /\ stop_loss_pct = <<1, 2>>
    /\ allow_short /\ exit_at_mean
    /\ initial_capital = 10000
    /\ mu = 100

C7_LongEntryBars == {k \in EntryBars : signals[k] = "BUY"}

\* C7: on the scenario run backtest opens exactly one LONG position, at the
\* trough (bar 3, price 90), holds it until the price is back at the mean
\* (bar 5, price 100) or later, closes it, and reports num_trades >= 2.
C7_ScenarioOneLongAtTrough ==
    C7_ScenarioRun =>
        /\ C7_LongEntryBars \subseteq {3}
        /\ pc = "done" =>
              /\ C7_LongEntryBars = {3}
              /\ data[3] = 90
              /\ positions[4] > 0
              /\ \E k \in 5..Len(positions) : positions[k] = 0
              /\ result.num_trades >= 2

\* C7 witness: the scenario run has returned
C7_Witness == C7_ScenarioRun /\ pc = "done" /\ Len(positions) = 9

\* all step returns (pv[k+1] - pv[k]) / pv[k] are defined and equal
C8_ReturnsAllEqual ==
    LET n == Len(portfolio_values) - 1
    IN  \A j, k \in 1..n :
           /\ portfolio_values[k] # 0
           /\ (portfolio_values[j + 1] - portfolio_values[j]) * portfolio_values[k]
                 = (portfolio_values[k + 1] - portfolio_values[k]) * portfolio_values[j]

\* C8: a run in which no position is ever opened keeps every entry of
\* portfolio_values at initial_capital and reports sharpe_ratio = 0,
\* total_return = 0, max_drawdown = 0 and num_trades = 0; and sharpe_ratio
\* is 0 whenever the step returns have zero standard deviation.
C8_FlatRunSentinels ==
    pc = "done" =>
        /\ trades = 0 =>
              /\ \A k \in 1..Len(portfolio_values) :
                     portfolio_values[k] = initial_capital
              /\ result.sharpe_ratio = "0"
              /\ result.total_return[1] = 0
              /\ result.max_drawdown[1] = 0
              /\ result.num_trades = 0
        /\ C8_ReturnsAllEqual => result.sharpe_ratio = "0"

\* C8 witness: a run on a valid fit that saw a signal-free series and returned
C8_Witness ==
    /\ pc = "done" /\ trades = 0 /\ theta > 0
    /\ Len(portfolio_values) = Len(data) + 1
    /\ Len(data) >= 3

\* C9: a simulate or simulate_exact call with an explicit seed leaves the
\* process-wide generator state as it found it.
C9_SeededCallKeepsGenerator ==
    [][((Simulate \/ SimulateExact) /\ ou_ret'.seeded) => rng' = rng]_vars

\* C10: for theta <= 0 both stationary_variance and half_life report an
\* undefined result (None) and never a numeric value.
C10_ThetaGuarded ==
    (ou_ret.op \in {"stationary_variance", "half_life"} /\ ou.theta <= 0)
        => ou_ret.kind = "None"

\* loss_pct > stop_loss_pct for a position entered at e, at price p
C11_LongOverLimit(e, p) == (e - p) * stop_loss_pct[2] > stop_loss_pct[1] * e

C11_ShortOverLimit(e, p) == (p - e) * stop_loss_pct[2] > stop_loss_pct[1] * e

\* C11: after every processed bar with price p no LONG entered at e is open
\* with (e - p)/e > stop_loss_pct and no SHORT with (p - e)/e > stop_loss_pct;
\* a position whose limit is exceeded at a bar is closed at that bar's price
\* in that bar, whatever the mean-crossing and signal tests would say.
C11_StopLossEveryBar ==
    /\ []((pc # "idle" /\ i >= 1) =>
            /\ position_type = "long" => ~C11_LongOverLimit(entry_price, data[i])
            /\ position_type = "short" => ~C11_ShortOverLimit(entry_price, data[i]))
    /\ [][(pc = "loop" /\ pc' = "loop") =>
            LET p == data[i + 1]
            IN  /\ (position_type = "long" /\ C11_LongOverLimit(entry_price, p))
                      => /\ position_type' = "None" /\ position' = 0
                         /\ cash' = cash + position * p
                         /\ trades' = trades + 1
                /\ (position_type = "short" /\ C11_ShortOverLimit(entry_price, p))
                      => /\ position_type' = "None" /\ position' = 0
                         /\ cash' = cash + position * (2 * entry_price - p)
                         /\ trades' = trades + 1]_vars

\* C11 witness: a long bought at bar i-1 was stopped out at bar i, a bar
\* that neither crosses the mean nor carries a SELL signal
C11_Witness ==
    /\ pc = "loop" /\ i >= 2
    /\ signals[i - 1] = "BUY" /\ positions[i - 1] > 0
    /\ (i = 2 \/ positions[i - 2] = 0)
    /\ C11_LongOverLimit(data[i - 1], data[i])
    /\ data[i] < mu /\ signals[i] # "SELL"
    /\ positions[i] = 0 /\ position_type = "None"

\* C12: with allow_short false no short position is ever opened: after every
\* bar the position is FLAT or LONG and cash is not negative, and a bar with
\* a SELL signal that starts FLAT changes neither cash nor position.
C12_NoShortWhenDisabled ==
    /\ []((pc # "idle" /\ ~allow_short) =>
            /\ position_type \in {"None", "long"}
            /\ cash >= 0)
    /\ [][(pc = "loop" /\ pc' = "loop" /\ ~allow_short
             /\ position_type = "None" /\ Last(signals') = "SELL")
            => /\ cash' = cash
               /\ position' = 0 /\ position_type' = "None" /\ entry_price' = 0
               /\ trades' = trades]_vars

\* C12 witness: with shorting disabled a SELL bar was processed while FLAT,
\* after an earlier long had been opened and closed
C12_Witness ==
    /\ pc = "loop" /\ ~allow_short /\ i >= 3
    /\ signals[i] = "SELL" /\ positions[i - 1] = 0 /\ positions[i] = 0
    /\ trades = 2

\* A bar processed by a strategy with threshold_sigma >= 0 and
\* stop_loss_pct >= 0
C13_GuardedBar ==
    /\ pc = "loop" /\ pc' = "loop"
    /\ threshold_sigma >= 0 /\ stop_loss_pct[1] >= 0

\* The same bar with nothing assumed of threshold_sigma and stop_loss_pct
C13_AnyBar == pc = "loop" /\ pc' = "loop"

C13_OneChange ==
    /\ trades' - trades <= 1
    /\ trades' = trades =>
          /\ position_type' = position_type
          /\ position' = position /\ entry_price' = entry_price
    /\ (trades' = trades + 1 /\ position_type = "None") =>
          /\ position_type' \in {"long", "short"}
          /\ position' > 0 /\ entry_price' = data[i + 1]
    /\ (trades' = trades + 1 /\ position_type # "None") =>
          /\ position_type' = "None" /\ position' = 0
    /\ ~(position_type = "long" /\ position_type' = "short")
    /\ ~(position_type = "short" /\ position_type' = "long")

\* C13: with threshold_sigma >= 0 and stop_loss_pct >= 0 a bar makes at most
\* one trade: a position opened at a bar is still open after it, a position
\* closed at a bar leaves the book FLAT after it, and the position kind never
\* goes from LONG to SHORT or from SHORT to LONG in one bar.
C13_AtMostOneChangePerBar == [][C13_GuardedBar => C13_OneChange]_vars

\* The statement without its precondition
C13_AtMostOneChangeAnyBar == [][C13_AnyBar => C13_OneChange]_vars

\* C13 witness: with threshold 0 and stop-loss 0 a long opened on the BUY bar
\* i-1 stayed open, the SELL bar i closed it, and no short replaced it
\* although shorting is allowed
C13_Witness ==
    /\ pc = "loop" /\ i >= 2
    /\ threshold_sigma = 0 /\ stop_loss_pct[1] = 0 /\ allow_short
    /\ signals[i - 1] = "BUY" /\ positions[i - 1] > 0
    /\ (i = 2 \/ positions[i - 2] = 0)
    /\ signals[i] = "SELL" /\ positions[i] = 0 /\ position_type = "None"
    /\ trades % 2 = 0

====
